---- MODULE Spec2Model ----
(***************************************************************************)
(* Model of the draw-a-memory server: the photo clustering handler, the    *)
(* draft handlers (get, edit, approve, discard), GetOrCreateUser, the date *)
(* range and age of a cluster, and the PostgreSQL tables and storage       *)
(* bucket they act on.                                                     *)
(***************************************************************************)
EXTENDS FiniteSets, Integers, Sequences, TLC

(* ------------------------------ bounds --------------------------------- *)
\* total number of injected failures of database statements and storage calls
\* that a handler survives (a failure that only ends a request is not counted)
MaxFaults == 1
\* total number of cluster ids (and draft ids) the cluster handler hands out
MaxClusters == 2
\* size of a classifier answer in the cluster-builder specification: number
\* of groups, and number of indexes of a group
MaxGroups == 2
MaxIdxLen == 1
\* number of readings of the clock that give different values
MaxClock == 2

(* ------------------------------ universe ------------------------------- *)
Users == {"u1", "u2"}
\* the photo rows created by earlier uploads, in the order the database returns them
PhotoOrder == <<"p1", "p2", "p3">>
Photos == {PhotoOrder[i] : i \in 1..Len(PhotoOrder)}
\* photos.user_id
PhotoOwner == [p \in Photos |-> IF p = "p3" THEN "u2" ELSE "u1"]
\* the two concurrent request slots (goroutines serving a draft request)
Slots == {"a", "b"}
\* the slot used when requests are served one after the other
SerialSlots == {"a"}
ClusterIds == 1..MaxClusters
DraftIds == 1..MaxClusters
\* sql.NullString{Valid: false} for page_drafts.cluster_id
NullCluster == 0
\* the Clerk ids of the authenticated callers
ClerkIds == {"k1", "k2"}

(* ------------------------- sequence helpers ---------------------------- *)
Range(s) == {s[i] : i \in 1..Len(s)}

SeqsUpTo(S, n) == UNION {[1..k -> S] : k \in 0..n}

RECURSIVE FlattenSeq(_)
FlattenSeq(ss) == IF ss = <<>> THEN <<>> ELSE Head(ss) \o FlattenSeq(Tail(ss))

(* --------------------------- cluster builder --------------------------- *)
\* title / description / theme a classifier group may carry
ClassifierMeta ==
    { [title |-> "First Steps", description |-> "A big day", theme |-> "milestone"],
      [title |-> "", description |-> "", theme |-> "sparkle"] }

\* the photo ids of one classifier group: indexes outside the batch are skipped
RECURSIVE ClusterPhotoIds(_, _)
ClusterPhotoIds(photoIds, idxs) ==
    IF idxs = <<>> THEN <<>>
    ELSE LET idx == Head(idxs)
             rest == ClusterPhotoIds(photoIds, Tail(idxs))
         IN  IF idx >= 0 /\ idx < Len(photoIds)
             THEN <<photoIds[idx + 1]>> \o rest
             ELSE rest

\* the loop over clusterResp.Clusters: a group without a valid index is skipped
RECURSIVE ConvertClusters(_, _)
ConvertClusters(photoIds, groups) ==
    IF groups = <<>> THEN <<>>
    ELSE LET c == Head(groups)
             clusterPhotoIds == ClusterPhotoIds(photoIds, c.photoIndexes)
             rest == ConvertClusters(photoIds, Tail(groups))
         IN  IF Len(clusterPhotoIds) = 0
             THEN rest
             ELSE <<[photoIds |-> clusterPhotoIds, theme |-> c.theme,
                     title |-> c.title, description |-> c.description]>> \o rest

\* mutant: no cluster is made when the classifier is not available
M_NoMockClusters(photoIds) == <<>>

CreateMockClusters(photoIds) ==
    IF Len(photoIds) = 0 THEN <<>>
    ELSE <<[photoIds |-> photoIds, theme |-> "love", title |-> "Precious Moments",
            description |-> "A beautiful collection of memories"]>>

\* resp.ok = FALSE stands for every early return to the mock clusters: no API
\* key, client or API error, no candidate, empty text, no JSON, unmarshal error
AnalyzeAndClusterPhotosWithData(photoIds, resp) ==
    IF ~resp.ok THEN CreateMockClusters(photoIds)
    ELSE LET clusters == ConvertClusters(photoIds, resp.groups)
         IN  IF Len(clusters) = 0 THEN CreateMockClusters(photoIds) ELSE clusters

\* the ids held by the clusters of one answer
ClusterUnion(clusters) == UNION {Range(clusters[i].photoIds) : i \in 1..Len(clusters)}

\* a classifier group with the given indexes and meta data
Group(idxs, m) ==
    [photoIndexes |-> idxs, title |-> m.title, description |-> m.description, theme |-> m.theme]

\* classifier answers for a batch of n photos: every index from -1 to n
ClassifierAnswers(n) ==
    {[ok |-> FALSE, groups |-> <<>>]} \cup
    {[ok |-> TRUE, groups |-> [i \in 1..Len(gs) |-> Group(gs[i], m)]] :
        gs \in SeqsUpTo(SeqsUpTo((-1)..n, MaxIdxLen), MaxGroups), m \in ClassifierMeta}

\* the batches handed to the cluster builder in its own specification
BuilderBatches == {<<"p1", "p2">>, <<"p1", "p2", "p3">>}

(* ------------------------------- state --------------------------------- *)
VARIABLES
    photos,         \* ids of the rows of table photos
    blobs,          \* ids of the photos whose objects are in the bucket
    clusters,       \* ids of the rows of table clusters
    clusterPhotos,  \* table cluster_photos: cluster id -> photo ids
    drafts,         \* table page_drafts: draft id -> row
    draftPhotos,    \* table draft_photos: draft id -> photo ids
    nextId,         \* number of cluster / draft ids handed out so far
    calls,          \* the draft request each slot is serving
    faults,         \* number of failures injected so far
    cin,            \* specification of a pure function: its input
    cout,           \* specification of a pure function: its output
    cpc,            \* specification of a pure function: "ready" or "done"
    users,          \* the rows of table users: id and clerk_id
    userCalls,      \* the call of GetOrCreateUser each slot is in
    clock           \* time.Now().UnixNano() as read by generateID

dbVars == <<photos, blobs, clusters, clusterPhotos, drafts, draftPhotos, nextId>>
builderVars == <<cin, cout, cpc>>
userVars == <<users, userCalls, clock>>
vars == <<photos, blobs, clusters, clusterPhotos, drafts, draftPhotos, nextId,
          calls, faults, cin, cout, cpc, users, userCalls, clock>>

\* an absent page_drafts row
NoDraft ==
    [exists |-> FALSE, user |-> "", cluster |-> NullCluster, title |-> "",
     description |-> "", theme |-> "", status |-> ""]

\* a slot that serves no request
IdleCall ==
    [op |-> "idle", pc |-> "idle", user |-> "", draft |-> 0,
     snap |-> NoDraft,   \* existingDraft, the row as loaded and later as written
     seen |-> "",        \* history: the status of the row when it was loaded
     req |-> [photoIds |-> {}, title |-> "", description |-> "", theme |-> ""],
     orig |-> {},        \* originalPhotoIDs / allPhotoIDs
     cluster |-> NullCluster,  \* clusterID as read by GetDraftAllPhotoIDs
     disc |-> {},        \* discardedPhotoIDs
     del |-> {},         \* history: the photo rows this request deleted
     fail |-> {},        \* history: the failures this request logged and survived
     res |-> "none",     \* the status of the response
     out |-> {}]         \* the photoIds of the response

\* a failure may be injected while the budget lasts
CanFail == faults < MaxFaults
Cost(f) == IF f THEN 1 ELSE 0

(* ------------------------------ database ------------------------------- *)
\* SELECT photo_id FROM draft_photos WHERE draft_id = $1
GetDraftPhotos(draftID) == draftPhotos[draftID]

\* the cluster's rows of cluster_photos, or the draft's own rows when the
\* draft has no cluster; err when the draft row is absent
GetDraftAllPhotoIDs(draftID) ==
    IF ~drafts[draftID].exists THEN [err |-> TRUE, ids |-> {}, cluster |-> NullCluster]
    ELSE IF drafts[draftID].cluster = NullCluster
         THEN [err |-> FALSE, ids |-> GetDraftPhotos(draftID), cluster |-> NullCluster]
         ELSE [err |-> FALSE, ids |-> clusterPhotos[drafts[draftID].cluster],
               cluster |-> drafts[draftID].cluster]

\* mutant: the statement lacks its WHERE clause and deletes every photo
M_HardDeleteEveryPhoto(photoIDs) ==
    /\ photos' = {}
    /\ clusterPhotos' = [c \in ClusterIds |-> {}]
    /\ draftPhotos' = [d \in DraftIds |-> {}]

\* mutant: the rows are only marked as deleted, as SoftDeletePhoto does
M_SoftDeletePhotos(photoIDs) ==
    UNCHANGED <<photos, clusterPhotos, draftPhotos>>

\* mutant: the junction tables have no ON DELETE CASCADE on photo_id
M_HardDeleteNoCascade(photoIDs) ==
    /\ photos' = photos \ photoIDs
    /\ UNCHANGED <<clusterPhotos, draftPhotos>>

\* DELETE FROM photos WHERE id = ANY($1), with the ON DELETE CASCADE of
\* cluster_photos.photo_id and draft_photos.photo_id
HardDeletePhotos(photoIDs) ==
    /\ photos' = photos \ photoIDs
    /\ clusterPhotos' = [c \in ClusterIds |-> clusterPhotos[c] \ photoIDs]
    /\ draftPhotos' = [d \in DraftIds |-> draftPhotos[d] \ photoIDs]

\* the failures deletePhotosFromStorageAndDB can meet: reading the paths,
\* deleting the objects of some photos, deleting the rows
DeleteFaults(photoIDs) ==
    {[paths |-> FALSE, blob |-> {}, db |-> FALSE]} \cup
    (IF CanFail
     THEN {[paths |-> TRUE, blob |-> {}, db |-> FALSE],
           [paths |-> FALSE, blob |-> {}, db |-> TRUE]} \cup
          {[paths |-> FALSE, blob |-> b, db |-> FALSE] :
              b \in (SUBSET (photoIDs \cap photos)) \ {{}}}
     ELSE {})

\* the names under which a request records these failures
FailureNames(f) ==
    (IF f.paths THEN {"paths"} ELSE {}) \cup (IF f.db THEN {"db"} ELSE {}) \cup
    (IF f.blob # {} THEN {"blob"} ELSE {})

\* mutant: a failing deletion of a storage object ends the function
M_DeleteStopsAtStorageFailure(photoIDs, f) ==
    /\ blobs' = IF f.paths THEN blobs ELSE blobs \ ((photoIDs \cap photos) \ f.blob)
    /\ IF f.db \/ f.blob # {}
       THEN UNCHANGED <<photos, clusterPhotos, draftPhotos>>
       ELSE HardDeletePhotos(photoIDs)
    /\ faults' = faults + Cost(f.paths \/ f.db \/ f.blob # {})

\* deletePhotosFromStorageAndDB: objects first (of the rows found), rows second;
\* every failure is logged and the function goes on
DeletePhotosFromStorageAndDB(photoIDs, f) ==
    /\ blobs' = IF f.paths THEN blobs ELSE blobs \ ((photoIDs \cap photos) \ f.blob)
    /\ IF f.db
       THEN UNCHANGED <<photos, clusterPhotos, draftPhotos>>
       ELSE HardDeletePhotos(photoIDs)
    /\ faults' = faults + Cost(f.paths \/ f.db \/ f.blob # {})

(* --------------------------- approve request --------------------------- *)
\* title / description / theme of a request body: two fields set, one left empty
RequestMeta == {[title |-> "Our Day", description |-> "", theme |-> "cozy"]}

\* the photoIds of a request body: none, one, two or all photos of the bucket
RequestPhotoIds == {{}, {"p1"}, {"p2", "p3"}, Photos}

\* the decoded body of PUT /api/drafts/{id}/approve
ApproveBodies ==
    {[photoIds |-> k, title |-> m.title, description |-> m.description, theme |-> m.theme] :
        k \in RequestPhotoIds, m \in RequestMeta}

\* the draft ids a request may name: every id handed out and one unknown id
RequestDraftIds == {d \in DraftIds : d <= nextId + 1}

\* a new request is served by the first free slot
SlotFree(s) ==
    /\ calls[s].op = "idle"
    /\ \A t \in Slots : (t # s /\ calls[t].op = "idle") => s = "a"

\* the slot ends its request with a status (a request that ends before it
\* touches the store is recorded with its operation and status only)
Finish(s, c, status) ==
    calls' = [calls EXCEPT ![s] = [c EXCEPT !.pc = "done", !.res = status]]

\* mutant: the body's photoIds are not looked at
M_DiscardEveryOriginal(originalPhotoIDs, approved) == originalPhotoIDs

\* the discarded set of the approve handler: original ids the body does not list
DiscardedPhotoIDs(originalPhotoIDs, approved) ==
    {id \in originalPhotoIDs : id \notin approved}

\* the row the approve handler writes: status approved, non-empty fields of the body
ApprovedDraft(existingDraft, req) ==
    [existingDraft EXCEPT
        !.status = "approved",
        !.title = IF req.title # "" THEN req.title ELSE @,
        !.description = IF req.description # "" THEN req.description ELSE @,
        !.theme = IF req.theme # "" THEN req.theme ELSE @]

\* UPDATE page_drafts SET ... WHERE id = $6 AND user_id = $7: no row, no change, no error
UpdateDraft(draft, draftID) ==
    IF drafts[draftID].exists /\ drafts[draftID].user = draft.user
    THEN [drafts EXCEPT ![draftID] =
             [@ EXCEPT !.title = draft.title, !.description = draft.description,
                       !.theme = draft.theme, !.status = draft.status]]
    ELSE drafts

\* handleUpdateDraft up to the decoded body: user, draft row, ownership, body
ApproveBegin(s) ==
    /\ SlotFree(s)
    /\ \E u \in Users, d \in RequestDraftIds, body \in ApproveBodies, bodyOk \in BOOLEAN,
          f \in {"none", "user", "draft"} :
        LET c == [IdleCall EXCEPT !.op = "approve", !.user = u, !.draft = d]
            early == [IdleCall EXCEPT !.op = "approve"]
        IN  /\ UNCHANGED faults
            /\ IF f = "user" THEN Finish(s, early, "InternalError")
               ELSE IF f = "draft" \/ ~drafts[d].exists THEN Finish(s, early, "NotFound")
               ELSE IF drafts[d].user # u THEN Finish(s, c, "Forbidden")
               ELSE IF ~bodyOk THEN Finish(s, early, "BadRequest")
               ELSE calls' = [calls EXCEPT ![s] =
                        [c EXCEPT !.pc = "readOriginal", !.snap = drafts[d],
                                  !.seen = drafts[d].status, !.req = body]]
    /\ UNCHANGED <<dbVars, builderVars, userVars>>

\* GetDraftAllPhotoIDs and the discarded set; an error reads as no photo
ApproveReadOriginal(s) ==
    LET c == calls[s]
        r == GetDraftAllPhotoIDs(c.draft)
    IN  /\ c.op = "approve" /\ c.pc = "readOriginal"
        /\ \E f \in BOOLEAN :
            LET originalPhotoIDs == IF f \/ r.err THEN {} ELSE r.ids
            IN  /\ f => CanFail
                /\ faults' = faults + Cost(f)
                /\ calls' = [calls EXCEPT ![s] =
                       [c EXCEPT !.pc = "delete", !.orig = originalPhotoIDs,
                                 !.fail = IF f \/ r.err THEN {"read"} ELSE {},
                                 !.disc = DiscardedPhotoIDs(originalPhotoIDs, c.req.photoIds)]]
        /\ UNCHANGED <<dbVars, builderVars, userVars>>

\* the discarded photos are deleted from the bucket and the database
ApproveDelete(s) ==
    LET c == calls[s]
    IN  /\ c.op = "approve" /\ c.pc = "delete"
        /\ IF c.disc = {}
           THEN /\ calls' = [calls EXCEPT ![s] = [c EXCEPT !.pc = "update"]]
                /\ UNCHANGED <<photos, blobs, clusterPhotos, draftPhotos, faults>>
           ELSE \E f \in DeleteFaults(c.disc) :
                /\ DeletePhotosFromStorageAndDB(c.disc, f)
                /\ calls' = [calls EXCEPT ![s] =
                       [c EXCEPT !.pc = "update", !.fail = c.fail \cup FailureNames(f),
                                 !.del = IF f.db THEN {} ELSE c.disc \cap photos]]
        /\ UNCHANGED <<clusters, drafts, nextId, builderVars, userVars>>

\* the row is written with status approved
ApproveUpdate(s) ==
    LET c == calls[s]
        existingDraft == ApprovedDraft(c.snap, c.req)
    IN  /\ c.op = "approve" /\ c.pc = "update"
        /\ \E f \in BOOLEAN :
            /\ f => CanFail
            /\ faults' = faults + Cost(f)
            /\ IF f
               THEN /\ Finish(s, [c EXCEPT !.snap = existingDraft,
                                            !.fail = c.fail \cup {"update"}],
                           "InternalError")
                    /\ UNCHANGED drafts
               ELSE /\ drafts' = UpdateDraft(existingDraft, c.draft)
                    /\ calls' = [calls EXCEPT ![s] =
                           [c EXCEPT !.pc = "respond", !.snap = existingDraft]]
        /\ UNCHANGED <<photos, blobs, clusters, clusterPhotos, draftPhotos, nextId,
                       builderVars, userVars>>

\* the response: the written row with the draft's rows of draft_photos
ApproveRespond(s) ==
    LET c == calls[s]
    IN  /\ c.op = "approve" /\ c.pc = "respond"
        /\ \E f \in BOOLEAN :
            /\ f => CanFail
            /\ faults' = faults + Cost(f)
            /\ Finish(s, [c EXCEPT !.out = IF f THEN {} ELSE GetDraftPhotos(c.draft),
                                    !.fail = IF f THEN c.fail \cup {"respond"} ELSE c.fail],
                      "OK")
        /\ UNCHANGED <<dbVars, builderVars, userVars>>

(* --------------------------- discard request --------------------------- *)
\* DELETE FROM page_drafts WHERE id = $1 AND user_id = $2, with the cascade
\* of draft_photos.draft_id; ok tells whether a row was deleted
\* mutant: the statement lacks its condition on user_id
M_DeleteDraftOfAnyUser(userID, draftID) ==
    IF drafts[draftID].exists
    THEN [ok |-> TRUE,
          drafts |-> [drafts EXCEPT ![draftID] = NoDraft],
          draftPhotos |-> [draftPhotos EXCEPT ![draftID] = {}]]
    ELSE [ok |-> FALSE, drafts |-> drafts, draftPhotos |-> draftPhotos]

DeleteDraft(userID, draftID) ==
    IF drafts[draftID].exists /\ drafts[draftID].user = userID
    THEN [ok |-> TRUE,
          drafts |-> [drafts EXCEPT ![draftID] = NoDraft],
          draftPhotos |-> [draftPhotos EXCEPT ![draftID] = {}]]
    ELSE [ok |-> FALSE, drafts |-> drafts, draftPhotos |-> draftPhotos]

\* handleDeleteDraft up to the photo ids read before the draft is deleted
DiscardBegin(s) ==
    /\ SlotFree(s)
    /\ \E u \in Users, d \in RequestDraftIds, f \in {"none", "user", "photos"} :
        LET c == [IdleCall EXCEPT !.op = "discard", !.user = u, !.draft = d]
            early == [IdleCall EXCEPT !.op = "discard"]
            r == GetDraftAllPhotoIDs(d)
        IN  /\ f = "photos" => CanFail
            /\ faults' = faults + Cost(f = "photos")
            /\ IF f = "user" THEN Finish(s, early, "InternalError")
               ELSE calls' = [calls EXCEPT ![s] =
                        [c EXCEPT !.pc = "deleteDraft",
                                  !.fail = IF f = "photos" \/ r.err THEN {"read"} ELSE {},
                                  !.cluster = IF f = "photos" THEN NullCluster ELSE r.cluster,
                                  !.orig = IF f = "photos" \/ r.err THEN {} ELSE r.ids]]
    /\ UNCHANGED <<dbVars, builderVars, userVars>>

\* the draft row is deleted; no row of this user, no further step
DiscardDeleteDraft(s) ==
    LET c == calls[s]
        r == DeleteDraft(c.user, c.draft)
    IN  /\ c.op = "discard" /\ c.pc = "deleteDraft"
        /\ \E f \in BOOLEAN :
            /\ f => CanFail
            /\ faults' = faults + Cost(f)
            /\ IF f \/ ~r.ok
               THEN /\ Finish(s, c, "NotFound")
                    /\ UNCHANGED <<drafts, draftPhotos>>
               ELSE /\ drafts' = r.drafts
                    /\ draftPhotos' = r.draftPhotos
                    /\ calls' = [calls EXCEPT ![s] = [c EXCEPT !.pc = "deletePhotos"]]
        /\ UNCHANGED <<photos, blobs, clusters, clusterPhotos, nextId,
                       builderVars, userVars>>

\* all photos read at the start are deleted from the bucket and the database
DiscardDeletePhotos(s) ==
    LET c == calls[s]
    IN  /\ c.op = "discard" /\ c.pc = "deletePhotos"
        /\ IF c.orig = {}
           THEN /\ Finish(s, c, "OK")
                /\ UNCHANGED <<photos, blobs, clusterPhotos, draftPhotos, faults>>
           ELSE \E f \in DeleteFaults(c.orig) :
                /\ DeletePhotosFromStorageAndDB(c.orig, f)
                /\ Finish(s, [c EXCEPT !.del = IF f.db THEN {} ELSE c.orig \cap photos,
                                        !.fail = c.fail \cup FailureNames(f)], "OK")
        /\ UNCHANGED <<clusters, drafts, nextId, builderVars, userVars>>

\* the response is sent and the slot is free again
Return(s) ==
    /\ calls[s].pc = "done"
    /\ calls' = [calls EXCEPT ![s] = IdleCall]
    /\ UNCHANGED <<dbVars, faults, builderVars, userVars>>

(* ---------------------------- edit request ----------------------------- *)
\* the decoded bodies of PUT /api/drafts/{id}: the editor's fields with the
\* photos the user has kept so far, and a body that only names a status
EditBodies ==
    { [photoIds |-> {"p1"}, title |-> "New Title", description |-> "", theme |-> "playful",
       status |-> ""],
      [photoIds |-> {}, title |-> "", description |-> "", theme |-> "", status |-> "draft"] }

\* the row the regular update writes: the three fields of the body as they
\* are (an empty one becomes NULL), the status when the body names one; the
\* photoIds of the body are not read
EditedDraft(existingDraft, req) ==
    [existingDraft EXCEPT
        !.title = req.title,
        !.description = req.description,
        !.theme = req.theme,
        !.status = IF req.status # "" THEN req.status ELSE @]

\* handleUpdateDraft without /approve, up to the decoded body
EditBegin(s) ==
    /\ SlotFree(s)
    /\ \E u \in Users, d \in RequestDraftIds, body \in EditBodies, bodyOk \in BOOLEAN,
          f \in {"none", "user", "draft"} :
        LET c == [IdleCall EXCEPT !.op = "edit", !.user = u, !.draft = d]
            early == [IdleCall EXCEPT !.op = "edit"]
        IN  /\ UNCHANGED faults
            /\ IF f = "user" THEN Finish(s, early, "InternalError")
               ELSE IF f = "draft" \/ ~drafts[d].exists THEN Finish(s, early, "NotFound")
               ELSE IF drafts[d].user # u THEN Finish(s, c, "Forbidden")
               ELSE IF ~bodyOk THEN Finish(s, early, "BadRequest")
               ELSE calls' = [calls EXCEPT ![s] =
                        [c EXCEPT !.pc = "editUpdate", !.snap = drafts[d],
                                  !.seen = drafts[d].status, !.req = body]]
    /\ UNCHANGED <<dbVars, builderVars, userVars>>

\* the row is written with the fields of the body
EditUpdate(s) ==
    LET c == calls[s]
        existingDraft == EditedDraft(c.snap, c.req)
    IN  /\ c.op = "edit" /\ c.pc = "editUpdate"
        /\ \E f \in BOOLEAN :
            /\ f => CanFail
            /\ faults' = faults + Cost(f)
            /\ IF f
               THEN /\ Finish(s, [c EXCEPT !.snap = existingDraft,
                                            !.fail = c.fail \cup {"update"}],
                           "InternalError")
                    /\ UNCHANGED drafts
               ELSE /\ drafts' = UpdateDraft(existingDraft, c.draft)
                    /\ calls' = [calls EXCEPT ![s] =
                           [c EXCEPT !.pc = "editRespond", !.snap = existingDraft]]
        /\ UNCHANGED <<photos, blobs, clusters, clusterPhotos, draftPhotos, nextId,
                       builderVars, userVars>>

\* the response: the written row with the draft's rows of draft_photos
EditRespond(s) ==
    LET c == calls[s]
    IN  /\ c.op = "edit" /\ c.pc = "editRespond"
        /\ \E f \in BOOLEAN :
            /\ f => CanFail
            /\ faults' = faults + Cost(f)
            /\ Finish(s, [c EXCEPT !.out = IF f THEN {} ELSE GetDraftPhotos(c.draft),
                                    !.fail = IF f THEN c.fail \cup {"respond"} ELSE c.fail],
                      "OK")
        /\ UNCHANGED <<dbVars, builderVars, userVars>>

(* ----------------------------- get request ----------------------------- *)
\* handleGetDrafts for one draft: user, draft row, ownership, the draft's photos
GetDraft(s) ==
    /\ SlotFree(s)
    /\ \E u \in Users, d \in RequestDraftIds, f \in {"none", "user", "draft", "photos"} :
        LET c == [IdleCall EXCEPT !.op = "get", !.user = u, !.draft = d]
            early == [IdleCall EXCEPT !.op = "get"]
        IN  /\ f = "photos" => (CanFail /\ drafts[d].exists /\ drafts[d].user = u)
            /\ faults' = faults + Cost(f = "photos")
            /\ IF f = "user" THEN Finish(s, early, "InternalError")
               ELSE IF f = "draft" \/ ~drafts[d].exists THEN Finish(s, early, "NotFound")
               ELSE IF drafts[d].user # u THEN Finish(s, c, "Forbidden")
               ELSE Finish(s, [c EXCEPT !.snap = drafts[d], !.seen = drafts[d].status,
                                        !.out = IF f = "photos" THEN {}
                                                ELSE GetDraftPhotos(d),
                                        !.fail = IF f = "photos" THEN {"respond"} ELSE {}],
                           "OK")
    /\ UNCHANGED <<dbVars, builderVars, userVars>>

(* --------------------------- cluster request --------------------------- *)
\* the photo id lists of POST /api/photos/cluster
AnalyzeBatches == {{"p1"}, {"p2"}, Photos}

\* the meta data of the groups the handler meets: a theme outside the list
HandlerMeta == {[title |-> "First Steps", description |-> "", theme |-> "sparkle"]}

\* classifier answers met by the handler: in-range, repeated, overlapping and
\* out-of-range indexes, up to two groups, or no usable answer at all
HandlerAnswers(n) ==
    {[ok |-> FALSE, groups |-> <<>>]} \cup
    {[ok |-> TRUE, groups |-> [i \in 1..Len(gs) |-> Group(gs[i], m)]] :
        gs \in SeqsUpTo({<<0>>, <<1>>, <<0, 1>>, <<n>>}, 2), m \in HandlerMeta}

\* SELECT ... FROM photos WHERE user_id = $1 AND id = ANY($2)
GetPhotosByIDs(userID, photoIDs) ==
    SelectSeq(PhotoOrder, LAMBDA p : p \in photoIDs /\ p \in photos /\ PhotoOwner[p] = userID)

\* what can happen while one cluster and its draft are written: nothing, or
\* one failing statement (k rows of the junction table were written before it)
Outcomes(len, canFail) ==
    {[kind |-> "ok", k |-> 0]} \cup
    (IF canFail
     THEN {[kind |-> "clusterFail", k |-> 0], [kind |-> "draftFail", k |-> 0]} \cup
          {[kind |-> kd, k |-> k] :
              kd \in {"clusterPhotosFail", "draftPhotosFail"}, k \in 0..(len - 1)}
     ELSE {})

\* the outcomes of the whole loop, within the failure budget
RECURSIVE Plans(_, _)
Plans(cs, budget) ==
    IF cs = <<>> THEN {<<>>}
    ELSE UNION { {<<o>> \o rest : rest \in Plans(Tail(cs), budget - Cost(o.kind # "ok"))} :
                 o \in Outcomes(Len(Head(cs).photoIds), budget > 0) }

PlanCost(plan) == Cardinality({i \in 1..Len(plan) : plan[i].kind # "ok"})

\* one pass of the loop of HandleClusterPhotos: CreateCluster, AddPhotosToCluster,
\* CreateDraft, AddPhotosToDraft. A missing cluster row makes the inserts that
\* reference it fail; a failed CreateDraft skips the draft's photos
PersistCluster(db, id, userID, cluster, o) ==
    LET all == Range(cluster.photoIds)
        written == {cluster.photoIds[j] : j \in 1..o.k}
        cOk == o.kind # "clusterFail"
        dOk == cOk /\ o.kind # "draftFail"
        cp == IF ~cOk THEN {} ELSE IF o.kind = "clusterPhotosFail" THEN written ELSE all
        dp == IF ~dOk THEN {} ELSE IF o.kind = "draftPhotosFail" THEN written ELSE all
        row == [exists |-> TRUE, user |-> userID, cluster |-> id, title |-> cluster.title,
                description |-> cluster.description, theme |-> cluster.theme,
                status |-> "draft"]
    IN  [clusters |-> IF cOk THEN db.clusters \cup {id} ELSE db.clusters,
         clusterPhotos |-> [db.clusterPhotos EXCEPT ![id] = cp],
         drafts |-> IF dOk THEN [db.drafts EXCEPT ![id] = row] ELSE db.drafts,
         draftPhotos |-> [db.draftPhotos EXCEPT ![id] = dp]]

RECURSIVE PersistClusters(_, _, _, _, _)
PersistClusters(db, id, userID, cs, plan) ==
    IF cs = <<>> THEN db
    ELSE PersistClusters(PersistCluster(db, id, userID, Head(cs), Head(plan)),
                         id + 1, userID, Tail(cs), Tail(plan))

\* HandleClusterPhotos: the caller's photos are read, classified and every
\* cluster is stored with its draft
Analyze(limit) ==
    \E u \in Users, batch \in AnalyzeBatches :
        LET dbPhotos == GetPhotosByIDs(u, batch)
            validPhotoIds == dbPhotos
        IN  /\ nextId < limit
            /\ Len(dbPhotos) > 0
            /\ \E p \in Range(dbPhotos) : p \in blobs
            /\ \E answer \in HandlerAnswers(Len(validPhotoIds)) :
                LET cs == AnalyzeAndClusterPhotosWithData(validPhotoIds, answer)
                IN  /\ nextId + Len(cs) <= limit
                    /\ \E plan \in Plans(cs, MaxFaults - faults) :
                        LET db == PersistClusters(
                                      [clusters |-> clusters, clusterPhotos |-> clusterPhotos,
                                       drafts |-> drafts, draftPhotos |-> draftPhotos],
                                      nextId + 1, u, cs, plan)
                        IN  /\ clusters' = db.clusters
                            /\ clusterPhotos' = db.clusterPhotos
                            /\ drafts' = db.drafts
                            /\ draftPhotos' = db.draftPhotos
                            /\ nextId' = nextId + Len(cs)
                            /\ faults' = faults + PlanCost(plan)
    /\ UNCHANGED <<photos, blobs, calls, builderVars, userVars>>

(* --------------------- cluster builder on its own ---------------------- *)
\* the cluster builder is applied to the input drawn at the start
BuildClusters ==
    /\ cpc = "ready"
    /\ cout' = AnalyzeAndClusterPhotosWithData(cin.photoIds, cin.resp)
    /\ cpc' = "done"
    /\ UNCHANGED <<dbVars, calls, faults, cin, userVars>>

(* ------------------------ date range of a cluster ---------------------- *)
\* time.Month.String() and the month of the layout "Jan"
MonthNames ==
    <<"January", "February", "March", "April", "May", "June", "July", "August",
      "September", "October", "November", "December">>
MonthAbbreviations ==
    <<"Jan", "Feb", "Mar", "Apr", "May", "Jun", "Jul", "Aug", "Sep", "Oct", "Nov", "Dec">>

\* a time.Time: calendar date and hour of the day
Time(y, m, d, h) == [year |-> y, month |-> m, day |-> d, hour |-> h]

\* photos.taken_at as a sql.NullTime
NullTime == [valid |-> FALSE, time |-> Time(1, 1, 1, 0)]
ValidTime(t) == [valid |-> TRUE, time |-> t]

\* the values of taken_at: none, two times of one day, days of one month,
\* of another month, of the last day of the year and of the next year, and
\* three days in the first weeks, months and years of a child born in 2024
TakenAtValues ==
    { NullTime,
      ValidTime(Time(2024, 6, 15, 9)), ValidTime(Time(2024, 6, 15, 18)),
      ValidTime(Time(2024, 6, 10, 9)), ValidTime(Time(2024, 6, 20, 9)),
      ValidTime(Time(2024, 8, 5, 9)), ValidTime(Time(2024, 12, 31, 9)),
      ValidTime(Time(2025, 1, 2, 9)),
      ValidTime(Time(2024, 1, 8, 9)), ValidTime(Time(2024, 3, 2, 9)),
      ValidTime(Time(2025, 2, 15, 9)) }

\* users.child_birthday: none, or a date parsed with the layout "2006-01-02",
\* which is the start of that day
ChildBirthdays ==
    { NullTime,
      ValidTime(Time(2024, 1, 1, 0)), ValidTime(Time(2024, 6, 15, 0)),
      ValidTime(Time(2023, 1, 2, 0)), ValidTime(Time(2024, 6, 6, 0)),
      ValidTime(Time(2024, 12, 30, 0)) }

\* Time.Before and Time.After
Before(t, u) ==
    \/ t.year < u.year
    \/ t.year = u.year /\ t.month < u.month
    \/ t.year = u.year /\ t.month = u.month /\ t.day < u.day
    \/ t.year = u.year /\ t.month = u.month /\ t.day = u.day /\ t.hour < u.hour
After(t, u) == Before(u, t)

\* Time.IsZero: January 1 of year 1, 00:00
IsZero(t) == t = Time(1, 1, 1, 0)

\* the days from 1970-01-01 to a calendar date, and the date of such a day
DaysFromCivil(y, m, d) ==
    LET yy == IF m <= 2 THEN y - 1 ELSE y
        era == yy \div 400
        yoe == yy - era * 400
        mp == (m + 9) % 12
        doy == (153 * mp + 2) \div 5 + d - 1
        doe == yoe * 365 + yoe \div 4 - yoe \div 100 + doy
    IN  era * 146097 + doe - 719468

CivilFromDays(days) ==
    LET z == days + 719468
        era == z \div 146097
        doe == z - era * 146097
        yoe == (doe - doe \div 1460 + doe \div 36524 - doe \div 146096) \div 365
        doy == doe - (365 * yoe + yoe \div 4 - yoe \div 100)
        mp == (5 * doy + 2) \div 153
        d == doy - (153 * mp + 2) \div 5 + 1
        m == IF mp < 10 THEN mp + 3 ELSE mp - 9
        y == yoe + era * 400 + (IF m <= 2 THEN 1 ELSE 0)
    IN  [year |-> y, month |-> m, day |-> d]

\* the hours from the start of 1970 to t, and the time of such an hour
UnixHours(t) == DaysFromCivil(t.year, t.month, t.day) * 24 + t.hour
TimeOfHours(n) ==
    LET c == CivilFromDays(n \div 24)
    IN  Time(c.year, c.month, c.day, n % 24)

\* Time.Sub as a number of hours, and Time.Add of a number of hours
Sub(t, u) == UnixHours(t) - UnixHours(u)
Add(t, hours) == TimeOfHours(UnixHours(t) + hours)

\* Time.Format with the layouts "January 2, 2006", "Jan 2" and "Jan 2, 2006"
FormatLong(t) ==
    MonthNames[t.month] \o " " \o ToString(t.day) \o ", " \o ToString(t.year)
FormatShort(t) == MonthAbbreviations[t.month] \o " " \o ToString(t.day)
FormatShortYear(t) == FormatShort(t) \o ", " \o ToString(t.year)

\* the loop over photoIds: the earliest and the latest valid taken_at
RECURSIVE MinMaxDates(_, _, _)
MinMaxDates(photoIds, photoMap, acc) ==
    IF photoIds = <<>> THEN acc
    ELSE LET photo == photoMap[Head(photoIds)]
             next ==
                 IF ~photo.valid THEN acc
                 ELSE IF ~acc.hasValidDate
                      THEN [hasValidDate |-> TRUE, minDate |-> photo.time,
                            maxDate |-> photo.time]
                      ELSE [hasValidDate |-> TRUE,
                            minDate |-> IF Before(photo.time, acc.minDate)
                                        THEN photo.time ELSE acc.minDate,
                            maxDate |-> IF After(photo.time, acc.maxDate)
                                        THEN photo.time ELSE acc.maxDate]
         IN  MinMaxDates(Tail(photoIds), photoMap, next)

\* mutant: every range is written with both years
M_FormatBothYears(minDate, maxDate) ==
    FormatShortYear(minDate) \o " - " \o FormatShortYear(maxDate)

\* the four formats of the date range
FormatDateRange(minDate, maxDate) ==
    IF minDate.year = maxDate.year /\ minDate.month = maxDate.month
           /\ minDate.day = maxDate.day
    THEN FormatLong(minDate)
    ELSE IF minDate.year = maxDate.year /\ minDate.month = maxDate.month
    THEN MonthNames[minDate.month] \o " " \o ToString(minDate.day) \o "-"
             \o ToString(maxDate.day) \o ", " \o ToString(minDate.year)
    ELSE IF minDate.year = maxDate.year
    THEN FormatShort(minDate) \o " - " \o FormatShortYear(maxDate)
    ELSE FormatShortYear(minDate) \o " - " \o FormatShortYear(maxDate)

\* CalculateAgeString: the age of the child at photoDate
CalculateAgeString(birthday, photoDate) ==
    IF IsZero(birthday) \/ IsZero(photoDate) THEN ""
    ELSE IF Before(photoDate, birthday) THEN ""
    ELSE LET totalDays == Sub(photoDate, birthday) \div 24
             dayDiff == photoDate.day - birthday.day
             monthDiff0 == (photoDate.month - birthday.month)
                               - (IF dayDiff < 0 THEN 1 ELSE 0)
             years == (photoDate.year - birthday.year) - (IF monthDiff0 < 0 THEN 1 ELSE 0)
             months == IF monthDiff0 < 0 THEN monthDiff0 + 12 ELSE monthDiff0
         IN  IF totalDays < 7
             THEN IF totalDays = 0 THEN "Newborn"
                  ELSE IF totalDays = 1 THEN "1 day old"
                  ELSE ToString(totalDays) \o " days old"
             ELSE IF totalDays < 60
             THEN IF totalDays \div 7 = 1 THEN "1 week old"
                  ELSE ToString(totalDays \div 7) \o " weeks old"
             ELSE IF years = 0
             THEN IF months = 1 THEN "1 month old"
                  ELSE ToString(months) \o " months old"
             ELSE IF years = 1 /\ months = 0 THEN "1 year old"
             ELSE IF years = 1
             THEN IF months = 1 THEN "1 year, 1 month old"
                  ELSE "1 year, " \o ToString(months) \o " months old"
             ELSE IF months = 0 THEN ToString(years) \o " years old"
             ELSE IF months = 1 THEN ToString(years) \o " years, 1 month old"
             ELSE ToString(years) \o " years, " \o ToString(months) \o " months old"

\* mutant: the age is taken at the earliest photo
M_AvgTimeIsMinDate(minDate, maxDate) == minDate

\* avgTime: the time halfway between the earliest and the latest photo
AvgTime(minDate, maxDate) == Add(minDate, Sub(maxDate, minDate) \div 2)

\* calculateClusterDatesAndAge: the date range of a cluster's photos and the
\* age of the child at the time halfway through it
CalculateClusterDatesAndAge(photoIds, photoMap, childBirthday) ==
    LET r == MinMaxDates(photoIds, photoMap,
                 [hasValidDate |-> FALSE, minDate |-> NullTime.time,
                  maxDate |-> NullTime.time])
    IN  IF ~r.hasValidDate THEN [dateRange |-> "", ageString |-> ""]
        ELSE [dateRange |-> FormatDateRange(r.minDate, r.maxDate),
              ageString |-> IF childBirthday.valid
                            THEN CalculateAgeString(childBirthday.time,
                                                    AvgTime(r.minDate, r.maxDate))
                            ELSE ""]

\* the function is applied to the cluster drawn at the start
CalculateDates ==
    /\ cpc = "ready"
    /\ cout' = CalculateClusterDatesAndAge(cin.photoIds, cin.photoMap, cin.childBirthday)
    /\ cpc' = "done"
    /\ UNCHANGED <<dbVars, calls, faults, cin, userVars>>

(* --------------------- cluster request, step by step ------------------- *)
\* the cluster request as it waits for the classifier and the background
\* generator: cin is the request, cout the clusters still to be stored, cpc the
\* place where the handler stands
NoOutcome == [kind |-> "ok", k |-> 0]
NoRequest ==
    [user |-> "", photoIds |-> <<>>, photoData |-> <<>>, apiKey |-> FALSE,
     resp |-> [ok |-> FALSE, groups |-> <<>>], outcome |-> NoOutcome, background |-> FALSE]

\* HandleClusterPhotos up to the call of the classifier: the caller's photos
\* are read and downloaded; validPhotoIds are the ids of all rows read,
\* photoData the images of the photos that could be downloaded. Without an API
\* key the mock clusters are made at once
AnalyzeBegin ==
    /\ cpc = "idle"
    /\ nextId < MaxClusters
    /\ \E u \in Users, batch \in AnalyzeBatches, apiKey \in BOOLEAN :
        LET dbPhotos == GetPhotosByIDs(u, batch)
        IN  /\ Len(dbPhotos) > 0
            /\ \E failed \in SUBSET Range(dbPhotos) :
                LET photoData == SelectSeq(dbPhotos, LAMBDA p : p \in blobs /\ p \notin failed)
                    validPhotoIds == dbPhotos
                    req == [NoRequest EXCEPT !.user = u, !.photoIds = validPhotoIds,
                                             !.photoData = photoData, !.apiKey = apiKey]
                IN  /\ failed # {} => CanFail
                    /\ Len(photoData) > 0
                    /\ faults' = faults + Cost(failed # {})
                    /\ cin' = req
                    /\ IF apiKey
                       THEN cout' = <<>> /\ cpc' = "classify"
                       ELSE cout' = CreateMockClusters(validPhotoIds) /\ cpc' = "persist"
    /\ UNCHANGED <<dbVars, calls, userVars>>

\* client.Models.GenerateContent returns: the classifier has seen the images
\* of photoData and names them by their index, or the call ends with an error
ClassifierReturns ==
    /\ cpc = "classify"
    /\ \E answer \in HandlerAnswers(Len(cin.photoData)) :
        LET cs == AnalyzeAndClusterPhotosWithData(cin.photoIds, answer)
        IN  /\ nextId + Len(cs) <= MaxClusters
            /\ cout' = cs
            /\ cin' = [cin EXCEPT !.resp = answer]
            /\ cpc' = "persist"
    /\ UNCHANGED <<dbVars, calls, faults, userVars>>

\* CreateCluster and AddPhotosToCluster for the next cluster, then the call of
\* the background generator (which returns at once without an API key)
AnalyzeSaveCluster ==
    /\ cpc = "persist"
    /\ \E o \in {x \in Outcomes(Len(Head(cout).photoIds), CanFail) :
                    x.kind \in {"ok", "clusterFail", "clusterPhotosFail"}} :
        LET db == PersistCluster(
                      [clusters |-> clusters, clusterPhotos |-> clusterPhotos,
                       drafts |-> drafts, draftPhotos |-> draftPhotos],
                      nextId + 1, cin.user, Head(cout), o)
        IN  /\ clusters' = db.clusters
            /\ clusterPhotos' = db.clusterPhotos
            /\ faults' = faults + Cost(o.kind # "ok")
            /\ cin' = [cin EXCEPT !.outcome = o]
            /\ cpc' = IF cin.apiKey THEN "background" ELSE "draft"
    /\ UNCHANGED <<photos, blobs, drafts, draftPhotos, nextId, calls, cout, userVars>>

\* the background generator returns an image or an error
BackgroundReturns ==
    /\ cpc = "background"
    /\ \E ok \in BOOLEAN : cin' = [cin EXCEPT !.background = ok]
    /\ cpc' = "draft"
    /\ UNCHANGED <<dbVars, calls, faults, cout, userVars>>

\* CreateDraft and AddPhotosToDraft for the cluster, then the next cluster
AnalyzeCreateDraft ==
    /\ cpc = "draft"
    /\ \E o \in {x \in Outcomes(Len(Head(cout).photoIds), CanFail) :
                    x.kind \in {"ok", "draftFail", "draftPhotosFail"}} :
        LET outcome == IF cin.outcome.kind = "clusterFail" THEN cin.outcome ELSE o
            db == PersistCluster(
                      [clusters |-> clusters, clusterPhotos |-> clusterPhotos,
                       drafts |-> drafts, draftPhotos |-> draftPhotos],
                      nextId + 1, cin.user, Head(cout), outcome)
        IN  /\ cin.outcome.kind = "clusterFail" => o.kind = "ok"
            /\ drafts' = db.drafts
            /\ draftPhotos' = db.draftPhotos
            /\ faults' = faults + Cost(o.kind # "ok")
            /\ nextId' = nextId + 1
            /\ cout' = Tail(cout)
            /\ cin' = [cin EXCEPT !.outcome = NoOutcome, !.background = FALSE]
            /\ cpc' = IF Tail(cout) = <<>> THEN "respond" ELSE "persist"
    /\ UNCHANGED <<photos, blobs, clusters, clusterPhotos, calls, userVars>>

\* the response with the clusters and the drafts is sent
AnalyzeRespond ==
    /\ cpc = "respond"
    /\ cin' = NoRequest
    /\ cout' = <<>>
    /\ cpc' = "idle"
    /\ UNCHANGED <<dbVars, calls, faults, userVars>>

(* ------------------------------- users --------------------------------- *)
\* a slot that is in no call of GetOrCreateUser
IdleUserCall == [pc |-> "idle", clerk |-> "", id |-> 0, res |-> "none"]

\* generateID: the clock as a text; the next reading may give the same value
GenerateID == clock

\* SELECT ... FROM users WHERE clerk_id = $1: the row is returned; on any
\* error (no row, or a failing query) a new id is made for the INSERT
UserSelect(s) ==
    /\ userCalls[s].pc = "idle"
    /\ \E clerkID \in ClerkIds, f \in BOOLEAN :
        LET rows == {r \in users : r.clerk = clerkID}
        IN  /\ f => CanFail
            /\ faults' = faults + Cost(f)
            /\ IF rows # {} /\ ~f
               THEN /\ userCalls' = [userCalls EXCEPT ![s] =
                           [pc |-> "done", clerk |-> clerkID,
                            id |-> (CHOOSE r \in rows : TRUE).id, res |-> "OK"]]
                    /\ UNCHANGED clock
               ELSE /\ userCalls' = [userCalls EXCEPT ![s] =
                           [pc |-> "insert", clerk |-> clerkID, id |-> GenerateID,
                            res |-> "none"]]
                    /\ \E tick \in {0, 1} :
                        /\ clock + tick <= MaxClock
                        /\ clock' = clock + tick
    /\ UNCHANGED <<dbVars, calls, builderVars, users>>

\* INSERT INTO users ... RETURNING: id is the primary key, clerk_id is UNIQUE
UserInsert(s) ==
    LET c == userCalls[s]
    IN  /\ c.pc = "insert"
        /\ IF \E r \in users : r.id = c.id \/ r.clerk = c.clerk
           THEN /\ userCalls' = [userCalls EXCEPT ![s] =
                       [c EXCEPT !.pc = "done", !.id = 0, !.res = "Error"]]
                /\ UNCHANGED users
           ELSE /\ users' = users \cup {[id |-> c.id, clerk |-> c.clerk]}
                /\ userCalls' = [userCalls EXCEPT ![s] = [c EXCEPT !.pc = "done", !.res = "OK"]]
        /\ UNCHANGED <<dbVars, calls, faults, builderVars, clock>>

\* the caller goes on with the user, or answers 500
UserReturn(s) ==
    /\ userCalls[s].pc = "done"
    /\ userCalls' = [userCalls EXCEPT ![s] = IdleUserCall]
    /\ UNCHANGED <<dbVars, calls, faults, builderVars, users, clock>>

(* --------------------------- specifications ---------------------------- *)
InitStore ==
    /\ photos = Photos
    /\ blobs = Photos
    /\ clusters = {}
    /\ clusterPhotos = [c \in ClusterIds |-> {}]
    /\ drafts = [d \in DraftIds |-> NoDraft]
    /\ draftPhotos = [d \in DraftIds |-> {}]
    /\ nextId = 0
    /\ calls = [s \in Slots |-> IdleCall]
    /\ faults = 0
    /\ users = {}
    /\ userCalls = [s \in Slots |-> IdleUserCall]
    /\ clock = 1

Init ==
    /\ InitStore
    /\ cin = [photoIds |-> <<>>, resp |-> [ok |-> FALSE, groups |-> <<>>]]
    /\ cout = <<>>
    /\ cpc = "off"

\* requests served one after the other, on the drafts of up to MaxClusters clusters
Next ==
    \/ Analyze(MaxClusters)
    \/ \E s \in SerialSlots : ApproveBegin(s)
    \/ \E s \in SerialSlots : ApproveReadOriginal(s)
    \/ \E s \in SerialSlots : ApproveDelete(s)
    \/ \E s \in SerialSlots : ApproveUpdate(s)
    \/ \E s \in SerialSlots : ApproveRespond(s)
    \/ \E s \in SerialSlots : DiscardBegin(s)
    \/ \E s \in SerialSlots : DiscardDeleteDraft(s)
    \/ \E s \in SerialSlots : DiscardDeletePhotos(s)
    \/ \E s \in SerialSlots : Return(s)

Spec == Init /\ [][Next]_vars

\* two requests served at the same time, on the draft of one cluster
NextRace ==
    \/ Analyze(1)
    \/ \E s \in Slots : ApproveBegin(s)
    \/ \E s \in Slots : ApproveReadOriginal(s)
    \/ \E s \in Slots : ApproveDelete(s)
    \/ \E s \in Slots : ApproveUpdate(s)
    \/ \E s \in Slots : ApproveRespond(s)
    \/ \E s \in Slots : DiscardBegin(s)
    \/ \E s \in Slots : DiscardDeleteDraft(s)
    \/ \E s \in Slots : DiscardDeletePhotos(s)
    \/ \E s \in Slots : Return(s)

SpecRace == Init /\ [][NextRace]_vars

InitBuilder ==
    /\ InitStore
    /\ \E ids \in BuilderBatches :
        \E resp \in ClassifierAnswers(Len(ids)) : cin = [photoIds |-> ids, resp |-> resp]
    /\ cout = <<>>
    /\ cpc = "ready"

NextBuilder == BuildClusters

SpecBuilder == InitBuilder /\ [][NextBuilder]_vars

\* requests of every kind served one after the other, on the draft of one cluster
NextEdit ==
    \/ Analyze(1)
    \/ \E s \in SerialSlots : ApproveBegin(s)
    \/ \E s \in SerialSlots : ApproveReadOriginal(s)
    \/ \E s \in SerialSlots : ApproveDelete(s)
    \/ \E s \in SerialSlots : ApproveUpdate(s)
    \/ \E s \in SerialSlots : ApproveRespond(s)
    \/ \E s \in SerialSlots : DiscardBegin(s)
    \/ \E s \in SerialSlots : DiscardDeleteDraft(s)
    \/ \E s \in SerialSlots : DiscardDeletePhotos(s)
    \/ \E s \in SerialSlots : EditBegin(s)
    \/ \E s \in SerialSlots : EditUpdate(s)
    \/ \E s \in SerialSlots : EditRespond(s)
    \/ \E s \in SerialSlots : GetDraft(s)
    \/ \E s \in SerialSlots : Return(s)

SpecEdit == Init /\ [][NextEdit]_vars

\* a cluster of one to three photos with any values of taken_at, of a user
\* with or without a child's birthday
InitDates ==
    /\ InitStore
    /\ \E n \in 1..Len(PhotoOrder) :
        \E photoMap \in [Photos -> TakenAtValues], childBirthday \in ChildBirthdays :
            cin = [photoIds |-> SubSeq(PhotoOrder, 1, n), photoMap |-> photoMap,
                   childBirthday |-> childBirthday]
    /\ cout = [dateRange |-> "", ageString |-> ""]
    /\ cpc = "ready"

NextDates == CalculateDates

SpecDates == InitDates /\ [][NextDates]_vars

\* cluster requests served step by step, one at a time
InitAnalyze ==
    /\ InitStore
    /\ cin = NoRequest
    /\ cout = <<>>
    /\ cpc = "idle"

NextAnalyze ==
    \/ AnalyzeBegin
    \/ ClassifierReturns
    \/ AnalyzeSaveCluster
    \/ BackgroundReturns
    \/ AnalyzeCreateDraft
    \/ AnalyzeRespond

SpecAnalyze == InitAnalyze /\ [][NextAnalyze]_vars

\* the handler takes its own steps; nothing obliges the classifier or the
\* background generator to answer, and the code sets no deadline on its calls
SpecAnalyzeLive ==
    /\ SpecAnalyze
    /\ WF_vars(AnalyzeSaveCluster)
    /\ WF_vars(AnalyzeCreateDraft)
    /\ WF_vars(AnalyzeRespond)

\* calls of GetOrCreateUser by two requests at the same time
NextUsers ==
    \/ \E s \in Slots : UserSelect(s)
    \/ \E s \in Slots : UserInsert(s)
    \/ \E s \in Slots : UserReturn(s)

SpecUsers == Init /\ [][NextUsers]_vars

(* ------------------------------- claims -------------------------------- *)
ApproveCalls == {s \in Slots : calls[s].op = "approve"}
DiscardCalls == {s \in Slots : calls[s].op = "discard"}
\* an approve request that has answered after loading a row in status draft
ApprovedFromDraft(s) ==
    calls[s].op = "approve" /\ calls[s].pc = "done" /\ calls[s].seen = "draft"
\* the photo rows deleted by the step
Removed == photos \ photos'
\* slot s takes its deleting step
ApproveDeletes(s) ==
    calls[s].op = "approve" /\ calls[s].pc = "delete" /\ calls'[s].pc = "update"
DiscardDeletes(s) ==
    calls[s].op = "discard" /\ calls[s].pc = "deletePhotos" /\ calls'[s].pc = "done"

\* no failure has been injected so far
NoFailure == faults = 0

\* C1: of two approve requests on the same draft that both loaded it in status
\* draft and both answered, exactly one answers success and the other
\* Conflict, and the one that did not succeed deleted no photo (already in
\* runs without any failure).
C1_OneApproveWins ==
    \A s, t \in Slots :
        (NoFailure /\ s # t /\ ApprovedFromDraft(s) /\ ApprovedFromDraft(t)
             /\ calls[s].draft = calls[t].draft)
        => /\ {calls[s].res, calls[t].res} = {"OK", "Conflict"}
           /\ calls[s].res # "OK" => calls[s].del = {}

\* C2: an approve request that loaded the draft in status approved answers
\* Conflict and deletes no photo (already in runs without any failure).
C2_ReapproveConflicts ==
    \A s \in ApproveCalls :
        (NoFailure /\ calls[s].seen = "approved")
        => /\ calls[s].del = {}
           /\ calls[s].pc = "done" => calls[s].res = "Conflict"

\* C3 as stated: a discard request deletes no photo; after it every photo it
\* read from the draft's cluster still has its row and its object.
C3_DiscardKeepsPhotos ==
    \A s \in DiscardCalls :
        NoFailure
        => /\ calls[s].del = {}
           /\ calls[s].pc = "done" =>
                (calls[s].orig \subseteq photos /\ calls[s].orig \subseteq blobs)

\* C3 amended: a photo row is deleted only by the deleting step of an approve
\* request (an id of the cluster that the body does not list) or of a discard
\* request (an id of the cluster read at its start), and a discard request
\* that succeeds without a failure leaves no row of the photos it read.
C3_DeletedOnlyByApproveOrDiscard ==
    /\ [][\A p \in Removed :
            \E s \in Slots :
                \/ ApproveDeletes(s) /\ p \in calls[s].orig /\ p \notin calls[s].req.photoIds
                \/ DiscardDeletes(s) /\ p \in calls[s].orig]_vars
    /\ [](\A s \in DiscardCalls :
            (calls[s].pc = "done" /\ calls[s].res = "OK" /\ calls[s].fail = {})
            => calls[s].orig \cap photos = {})

\* a discard request has succeeded and has deleted photo rows
C3_Witness ==
    \E s \in DiscardCalls :
        calls[s].pc = "done" /\ calls[s].res = "OK" /\ calls[s].del # {} /\ calls[s].fail = {}

\* C4: whenever an approve request has deleted a photo row, the draft's row
\* exists with status approved (already in runs without any failure).
C4_StatusBeforeDeletion ==
    \A s \in ApproveCalls :
        (NoFailure /\ calls[s].del # {})
        => drafts[calls[s].draft].exists /\ drafts[calls[s].draft].status = "approved"

\* C5: an approve request whose photoIds share no id with the cluster's photo
\* ids deletes no photo, answers with a validation error and leaves the draft
\* in status draft (already in runs without any failure).
C5_EmptyKeptRejected ==
    \A s \in ApproveCalls :
        (NoFailure /\ calls[s].seen = "draft"
             /\ calls[s].pc \in {"update", "respond", "done"}
             /\ calls[s].req.photoIds \cap calls[s].orig = {})
        => /\ calls[s].del = {}
           /\ calls[s].pc = "done" =>
                (calls[s].res = "BadRequest" /\ drafts[calls[s].draft].status = "draft")

\* C6: the rows deleted by the deleting step of an approve request are ids of
\* the draft's cluster, read from cluster_photos, that the body does not list:
\* no listed id and no id outside the cluster is deleted.
C6_DeletesOnlyDiscarded ==
    [][\A s \in Slots :
        ApproveDeletes(s)
        => /\ Removed \subseteq calls[s].orig \ calls[s].req.photoIds
           /\ Removed \cap calls[s].req.photoIds = {}
           /\ Removed \subseteq clusterPhotos[calls[s].snap.cluster]]_vars

\* an approve request whose body lists an id outside the cluster has deleted
\* one photo of the cluster and kept another
C6_Witness ==
    \E s \in ApproveCalls :
        /\ calls[s].del # {}
        /\ calls[s].req.photoIds \ calls[s].orig # {}
        /\ calls[s].req.photoIds \cap calls[s].orig # {}

C8_PageHoldsKept ==
    \A s \in ApproveCalls :
        (NoFailure /\ calls[s].pc = "done" /\ calls[s].res = "OK")
        => /\ calls[s].snap.status = "approved"
           /\ calls[s].out = calls[s].req.photoIds \cap calls[s].orig
           /\ calls[s].out # {}

\* C9: the clusters built from a batch hold, together, exactly the ids of the batch.
C9_Coverage ==
    cpc = "done" => ClusterUnion(cout) = Range(cin.photoIds)

\* C10: no photo id occurs twice in the clusters built from one batch, neither
\* in two clusters nor twice in one (a photo named by several groups belongs
\* to the first one only).
C10_NoDuplicateMembership ==
    cpc = "done" =>
        LET all == FlattenSeq([i \in 1..Len(cout) |-> cout[i].photoIds])
        IN  \A i, j \in 1..Len(all) : i # j => all[i] # all[j]

\* no group of the classifier's answer names a photo of the batch
NoUsableGroup ==
    \A i \in 1..Len(cin.resp.groups) :
        \A j \in 1..Len(cin.resp.groups[i].photoIndexes) :
            LET idx == cin.resp.groups[i].photoIndexes[j]
            IN  idx < 0 \/ idx >= Len(cin.photoIds)

EditCalls == {s \in Slots : calls[s].op = "edit"}
GetCalls == {s \in Slots : calls[s].op = "get"}

\* C12: an edit request that loaded the draft in status approved answers with
\* an invalid-state error (already in runs without any failure), and no step
\* of such a request changes the draft's row.
C12_EditOnlyWhileDraft ==
    /\ [](\A s \in EditCalls :
            (NoFailure /\ calls[s].seen = "approved" /\ calls[s].pc = "done")
            => calls[s].res = "InvalidState")
    /\ [][\A s \in EditCalls :
            (NoFailure /\ calls[s].seen = "approved")
            => drafts'[calls[s].draft] = drafts[calls[s].draft]]_vars

\* C13: no step changes or removes the row of a draft whose status is approved
\* (already in runs without any failure).
C13_ApprovedIsTerminal ==
    [][\A d \in DraftIds :
        (NoFailure /\ drafts[d].exists /\ drafts[d].status = "approved")
        => drafts'[d] = drafts[d]]_vars

\* the requests on a draft that have answered
AnsweredDraftCalls ==
    {s \in Slots : calls[s].op \in {"get", "edit", "approve", "discard"}
                      /\ calls[s].pc = "done" /\ calls[s].draft \in DraftIds}
\* a request of user u is being served
Serving(u) == \E s \in Slots : calls[s].op # "idle" /\ calls[s].pc # "done" /\ calls[s].user = u

\* C14: a get, edit, approve or discard request on an existing draft of
\* another user answers Forbidden or NotFound and has deleted nothing; the row
\* of a draft and its rows of draft_photos change, and a photo row or object
\* is deleted, only while a request of the owner is served; the photos of a
\* draft and of its cluster are photos of the draft's owner, and the members a
\* step adds to a cluster have one owner.
C14_OwnerOnly ==
    /\ [](\A s \in AnsweredDraftCalls :
            (drafts[calls[s].draft].exists /\ drafts[calls[s].draft].user # calls[s].user)
            => calls[s].res \in {"Forbidden", "NotFound"} /\ calls[s].del = {})
    /\ [][/\ \A d \in DraftIds :
                (drafts[d].exists /\ (drafts'[d] # drafts[d] \/ draftPhotos'[d] # draftPhotos[d]))
                => Serving(drafts[d].user)
          /\ \A p \in (photos \ photos') \cup (blobs \ blobs') : Serving(PhotoOwner[p])
          /\ \A c \in ClusterIds :
                \E u \in Users :
                    \A p \in clusterPhotos'[c] \ clusterPhotos[c] : PhotoOwner[p] = u]_vars
    /\ [](\A d \in DraftIds :
            drafts[d].exists
            => \A p \in draftPhotos[d] \cup clusterPhotos[drafts[d].cluster] :
                   PhotoOwner[p] = drafts[d].user)

\* a discard request of another user has read the photo ids of the draft and
\* has answered NotFound
C14_Witness ==
    \E s \in DiscardCalls :
        /\ calls[s].pc = "done" /\ calls[s].draft \in DraftIds
        /\ drafts[calls[s].draft].exists /\ drafts[calls[s].draft].user # calls[s].user
        /\ calls[s].orig # {} /\ calls[s].res = "NotFound"

\* C15: after a discard request has answered success, neither the draft's row
\* nor the row of its cluster exists (already in runs without any failure).
C15_DiscardRemovesCluster ==
    \A s \in DiscardCalls :
        (NoFailure /\ calls[s].pc = "done" /\ calls[s].res = "OK")
        => /\ ~drafts[calls[s].draft].exists
           /\ calls[s].cluster \notin clusters

C17_CuratePersisted ==
    \A s \in EditCalls :
        (NoFailure /\ calls[s].pc = "done" /\ calls[s].res = "OK"
             /\ calls[s].req.photoIds # {}
             /\ calls[s].req.photoIds \subseteq clusterPhotos[calls[s].snap.cluster])
        => /\ GetDraftPhotos(calls[s].draft) = calls[s].req.photoIds
           /\ calls[s].out = calls[s].req.photoIds
           /\ calls[s].del = {}

\* C18: an approve request that met a failing deletion of a storage object and
\* no failing database statement has deleted the rows of all its discarded
\* photos, and it answers success with the draft's row in status approved.
C18_StorageFailureTolerated ==
    \A s \in ApproveCalls :
        ("blob" \in calls[s].fail /\ calls[s].fail \cap {"read", "db", "update"} = {})
        => /\ calls[s].pc \in {"update", "respond", "done"}
           /\ calls[s].disc \cap photos = {}
           /\ calls[s].pc = "done" =>
                /\ calls[s].res = "OK"
                /\ calls[s].snap.status = "approved"
                /\ drafts[calls[s].draft].status = "approved"

\* an approve request has answered success although the object of a photo it
\* discarded is still in the bucket
C18_Witness ==
    \E s \in ApproveCalls :
        /\ calls[s].pc = "done" /\ calls[s].res = "OK" /\ "blob" \in calls[s].fail
        /\ \E p \in calls[s].disc : p \in blobs /\ p \notin photos

\* C19: no photo is a member of two clusters (already in runs without any failure).
C19_OneClusterPerPhoto ==
    \A c1, c2 \in clusters :
        (NoFailure /\ c1 # c2) => clusterPhotos[c1] \cap clusterPhotos[c2] = {}

\* the valid taken_at times of the cluster's photos
TakenTimes ==
    {cin.photoMap[id].time : id \in {i \in Range(cin.photoIds) : cin.photoMap[i].valid}}
Earliest == CHOOSE t \in TakenTimes : \A u \in TakenTimes : ~Before(u, t)
Latest == CHOOSE t \in TakenTimes : \A u \in TakenTimes : ~Before(t, u)
\* U+2013, which a string of the model cannot hold
EnDash == "<U+2013>"
Hyphen == "-"

\* the date range as the specification words it, with the given dash
DateRangeText(lo, hi, dash) ==
    LET sameYear == lo.year = hi.year
        sameMonth == sameYear /\ lo.month = hi.month
        sameDay == sameMonth /\ lo.day = hi.day
        Long(t) == MonthNames[t.month] \o " " \o ToString(t.day) \o ", " \o ToString(t.year)
        Mon(t) == MonthAbbreviations[t.month] \o " " \o ToString(t.day)
    IN  CASE sameDay -> Long(lo)
          [] sameMonth /\ ~sameDay ->
                MonthNames[lo.month] \o " " \o ToString(lo.day) \o dash \o ToString(hi.day)
                    \o ", " \o ToString(lo.year)
          [] sameYear /\ ~sameMonth ->
                Mon(lo) \o " " \o dash \o " " \o Mon(hi) \o ", " \o ToString(hi.year)
          [] OTHER ->
                Mon(lo) \o ", " \o ToString(lo.year) \o " " \o dash \o " " \o Mon(hi)
                    \o ", " \o ToString(hi.year)

\* C20 as stated: the date range is empty exactly when no photo of the cluster
\* has a taken_at, and otherwise is the text of the earliest and the latest
\* taken_at in the four formats, written with an en dash.
C20_DateRangeEnDash ==
    cpc = "done" =>
        /\ cout.dateRange = "" <=> TakenTimes = {}
        /\ TakenTimes # {} => cout.dateRange = DateRangeText(Earliest, Latest, EnDash)

\* C20 amended: the same, written with a hyphen: "June 10-20, 2024" and
\* "Jun 10 - Aug 5, 2024".
C20_DateRangeHyphen ==
    cpc = "done" =>
        /\ cout.dateRange = "" <=> TakenTimes = {}
        /\ TakenTimes # {} => cout.dateRange = DateRangeText(Earliest, Latest, Hyphen)
        /\ (TakenTimes # {} /\ Earliest.year = 2024 /\ Earliest.month = 6
                /\ Earliest.day = 10 /\ Latest.year = 2024 /\ Latest.month = 6
                /\ Latest.day = 20)
           => cout.dateRange = "June 10-20, 2024"
        /\ (TakenTimes # {} /\ Earliest.year = 2024 /\ Earliest.month = 6
                /\ Earliest.day = 10 /\ Latest.year = 2024 /\ Latest.month = 8
                /\ Latest.day = 5)
           => cout.dateRange = "Jun 10 - Aug 5, 2024"

\* the range of a cluster with an undated photo and photos of two days of a
\* month has been computed
C20_Witness ==
    /\ cpc = "done"
    /\ \E id \in Range(cin.photoIds) : ~cin.photoMap[id].valid
    /\ cout.dateRange = "June 10-20, 2024"

\* the time halfway between the earliest and the latest taken_at
MidTime == TimeOfHours((UnixHours(Earliest) + UnixHours(Latest)) \div 2)
\* the time halfway falls on the given day
MidDay(y, m, d) ==
    TakenTimes # {} /\ MidTime.year = y /\ MidTime.month = m /\ MidTime.day = d
\* "1 <unit>" or "N <unit>s"
Plural(n, unit) ==
    IF n = 1 THEN "1 " \o unit ELSE ToString(n) \o " " \o unit \o "s"

\* the age as the specification words it: bands of the days counted on the
\* calendar, then whole years and months
AgeText(birthday, t) ==
    LET days == DaysFromCivil(t.year, t.month, t.day)
                    - DaysFromCivil(birthday.year, birthday.month, birthday.day)
        whole == 12 * (t.year - birthday.year) + (t.month - birthday.month)
                     - (IF t.day < birthday.day THEN 1 ELSE 0)
        y == whole \div 12
        m == whole % 12
    IN  CASE days = 0 -> "Newborn"
          [] days \in 1..6 -> Plural(days, "day") \o " old"
          [] days \in 7..59 -> Plural(days \div 7, "week") \o " old"
          [] OTHER ->
                IF y = 0 THEN Plural(m, "month") \o " old"
                ELSE IF m = 0 THEN Plural(y, "year") \o " old"
                ELSE Plural(y, "year") \o ", " \o Plural(m, "month") \o " old"

ReturnedClusters == (nextId + 1)..nextId'
ReturnedDrafts == {d \in (nextId + 1)..nextId' : drafts'[d].exists}

\* C22: after a step of the cluster handler every cluster it returns has its
\* row and exactly one draft, in status draft, that references it; the
\* clusters and the drafts it returns correspond one to one; and every draft
\* references an existing cluster (also when a statement fails).
C22_OneDraftPerCluster ==
    /\ [][/\ \A c \in ReturnedClusters :
                /\ c \in clusters'
                /\ \E d \in DraftIds :
                    /\ drafts'[d].exists /\ drafts'[d].cluster = c
                    /\ drafts'[d].status = "draft"
                    /\ \A e \in DraftIds :
                        (drafts'[e].exists /\ drafts'[e].cluster = c) => e = d
          /\ Cardinality(ReturnedDrafts) = Cardinality(ReturnedClusters)]_vars
    /\ [](\A d \in DraftIds : drafts[d].exists => drafts[d].cluster \in clusters)

\* C23: the photos recorded for a draft are photos of its cluster; the draft
\* of a new cluster starts with all members of the cluster, and no step adds
\* a photo to an existing draft (also when a statement that writes the
\* membership rows fails).
C23_DraftPhotosWithinCluster ==
    /\ [](\A d \in DraftIds :
            drafts[d].exists => draftPhotos[d] \subseteq clusterPhotos[drafts[d].cluster])
    /\ [][/\ \A d \in ReturnedDrafts : draftPhotos'[d] = clusterPhotos'[drafts'[d].cluster]
          /\ \A d \in DraftIds :
                (drafts[d].exists /\ drafts'[d].exists)
                => draftPhotos'[d] \subseteq draftPhotos[d]]_vars

\* the grounds on which an approve request may be refused: the body or the
\* draft id is not valid, the draft is another user's, the draft is not in
\* status draft
RefusalGrounds == {"BadRequest", "NotFound", "Forbidden", "Conflict"}

\* C24: an approve request that has answered with an error has deleted no
\* photo and has left the draft's row in the status it had when it was
\* loaded, and the error is one of validation, ownership or conflict.
C24_FailedApproveChangesNothing ==
    \A s \in ApproveCalls :
        (calls[s].pc = "done" /\ calls[s].res # "OK")
        => /\ calls[s].del = {}
           /\ calls[s].draft \in DraftIds =>
                (drafts[calls[s].draft].exists =>
                    calls[s].seen \in {"", drafts[calls[s].draft].status})
           /\ calls[s].res \in RefusalGrounds

\* the ten themes: the keys of themeToPromptStyle and of themeColors
Themes ==
    {"adventure", "cozy", "celebration", "nature", "family", "milestone", "playful",
     "love", "growth", "serene"}
\* the theme whose style the background generator uses for a stored theme
BackgroundTheme(theme) == IF theme \in Themes THEN theme ELSE "love"
\* the theme whose colours the draft editor and the page view use
EditorTheme(theme) == IF theme \in Themes THEN theme ELSE "family"

\* C25: the theme stored on a draft, and the theme of a draft returned by a
\* get, edit or approve request, is one of the ten themes, and the background
\* generator and the editor read a stored theme as the same theme.
C25_ThemeNormalized ==
    /\ \A d \in DraftIds :
            drafts[d].exists
            => /\ drafts[d].theme \in Themes
               /\ BackgroundTheme(drafts[d].theme) = EditorTheme(drafts[d].theme)
    /\ \A s \in Slots :
            (calls[s].op \in {"get", "edit", "approve"} /\ calls[s].pc = "done"
                 /\ calls[s].res = "OK")
            => calls[s].snap.theme \in Themes

\* C26: every cluster request that has started returns, also when the
\* classifier or the background generator never answers.
C26_AnalyzeReturns == (cpc \in {"classify", "persist", "background", "draft", "respond"}) ~> (cpc = "idle")

\* the photos whose images the classifier names by the indexes of a group
ImagesOf(photoData, idxs) ==
    {photoData[idxs[j] + 1] : j \in {k \in 1..Len(idxs) : idxs[k] >= 0 /\ idxs[k] < Len(photoData)}}
\* the classifier's answer has a group from which a cluster is made
UsableGroup(req) ==
    /\ req.resp.ok
    /\ \E g \in 1..Len(req.resp.groups) :
        \E j \in 1..Len(req.resp.groups[g].photoIndexes) :
            LET idx == req.resp.groups[g].photoIndexes[j]
            IN  idx >= 0 /\ idx < Len(req.photoIds)

\* C27: when the classifier returns, every cluster made from its answer holds
\* only ids of photos whose images one group of the answer names, index i
\* being the i-th image sent (also when a photo of the batch could not be
\* downloaded).
C27_IndexDenotesSentImage ==
    [][(cpc = "classify" /\ cpc' = "persist" /\ UsableGroup(cin'))
       => \A i \in 1..Len(cout') :
            \E g \in 1..Len(cin'.resp.groups) :
                Range(cout'[i].photoIds)
                    \subseteq ImagesOf(cin'.photoData, cin'.resp.groups[g].photoIndexes)]_vars

\* slot s sends the success response of an approve request
ApproveSucceeds(s) ==
    /\ calls[s].op = "approve" /\ calls[s].pc = "respond"
    /\ calls'[s].pc = "done" /\ calls'[s].res = "OK"

\* C28: at the step where an approve request answers success, the draft's row
\* exists with status approved and the photos it kept (the listed ids of the
\* cluster) have their rows, also when a discard request on the same draft is
\* served at the same time (already in runs without any failure).
C28_SuccessMeansApproved ==
    [][\A s \in Slots :
        (NoFailure /\ ApproveSucceeds(s))
        => /\ drafts'[calls[s].draft].exists
           /\ drafts'[calls[s].draft].status = "approved"
           /\ (calls[s].req.photoIds \cap calls[s].orig) \subseteq photos']_vars

\* C29: the deleting step of an approve or discard request deletes no photo
\* of an approved draft other than the draft of the request (already in runs
\* without any failure).
C29_ApprovedPhotosKept ==
    [][\A s \in Slots, d \in DraftIds :
        (NoFailure /\ (ApproveDeletes(s) \/ DiscardDeletes(s)) /\ calls[s].draft # d
             /\ drafts[d].exists /\ drafts[d].status = "approved")
        => draftPhotos[d] \subseteq photos']_vars

\* C30: a Clerk id has at most one row of table users, and every call of
\* GetOrCreateUser that has returned has succeeded with the id of that row
\* (already in runs without any failure), also when two first calls for the
\* Clerk id are made at the same time.
C30_OneUserPerClerk ==
    /\ \A r1, r2 \in users : r1.clerk = r2.clerk => r1 = r2
    /\ \A s \in Slots :
            (NoFailure /\ userCalls[s].pc = "done")
            => /\ userCalls[s].res = "OK"
               /\ [id |-> userCalls[s].id, clerk |-> userCalls[s].clerk] \in users

====
